---- MODULE Spec2Model ----
(***************************************************************************)
(* Speaker diarization microservice (src/services/diarization/main.py).    *)
(*                                                                         *)
(* Three specifications share this module:                                 *)
(*   SpecSplit    the segment splitter, split_audio_by_segments            *)
(*   SpecCluster  the clustering engine, cluster_speakers and              *)
(*                cluster_speakers_personalized                            *)
(*   Spec         the service: the /diarize handler, the global model      *)
(*                cache behind load_model and the temporary files          *)
(*                                                                         *)
(* Units.  Times are tenths of a second.  Similarities, similarity         *)
(* thresholds and silhouette scores are hundredths (0.45 is 45, -1 is      *)
(* -100).  Distances are whole units of the standardized space.            *)
(*                                                                         *)
(* Library results.  scipy's pdist, sklearn's AgglomerativeClustering and  *)
(* silhouette_score and the XTTS model are outside the repository: their   *)
(* results are drawn from bounded sets that respect their contracts        *)
(* (fit_predict with n_clusters = k on at least k samples labels every     *)
(* sample with one of exactly k ids 0..k-1; a silhouette score lies in     *)
(* (-1, 1]).                                                               *)
(*                                                                         *)
(* An embedding is None or a pair <<par, perp>>: its component along the   *)
(* user's reference embedding and the norm of its component orthogonal to  *)
(* it, which is all that the cosine similarity reads.  The rest of its     *)
(* geometry shows only through the library results above.                  *)
(***************************************************************************)
EXTENDS Integers, Sequences, FiniteSets, TLC

VARIABLES
    splitter,   \* SpecSplit: one call of split_audio_by_segments
    engine,     \* SpecCluster: one call of a clustering entry point
    prev,       \* SpecCluster: summary of the preceding personalized call
    model,      \* Spec: the global model cache
    loads,      \* Spec: how often the model was set up and its checkpoint loaded
    files,      \* Spec: the temporary files and directories that exist
    req         \* Spec: each request's handler, its position and its locals

harness == <<splitter, engine, prev>>
service == <<model, loads, files, req>>
vars == <<splitter, engine, prev, model, loads, files, req>>

None == <<>>

Min(a, b) == IF a < b THEN a ELSE b
Max(a, b) == IF a > b THEN a ELSE b

(***************************************************************************)
(* Bounds of the model.                                                    *)
(***************************************************************************)
MaxEmb == 4          \* longest embedding list given to the clustering engine
MaxSegs == 2         \* longest segment list of a /diarize request
NumWorkers == 2      \* requests in flight
MaxSplitSegs == 1    \* longest segment list given to the splitter alone
MaxAudioTenths == 4  \* longest audio buffer given to the splitter alone
Jitter == 2          \* how far a timestamp may lie outside 0..MaxAudioTenths
UploadTenths == 10   \* length of the audio a /diarize request uploads

(***************************************************************************)
(* Program constants.                                                      *)
(***************************************************************************)
SR == 22050                  \* librosa.load(..., sr=22050)
MinSegmentTenths == 3        \* len(segment_audio) < sr * 0.3
two_speaker_threshold == 19  \* max_distance < 19
MaxClustersStandard == 10    \* min(10, len(X) - 1)
MaxClustersOther == 5        \* min(5, len(X) - 1)
InitialBestScore == -100     \* best_score = -1
AcceptScore == 20            \* best_score > 0.2
DefaultThreshold == 45       \* similarity_threshold: float = 0.45
EmbeddingDim == 512          \* len(user_emb) == 512
MinEmbeddingTenths == 5      \* duration < 0.5

(***************************************************************************)
(* Segment splitter.                                                       *)
(***************************************************************************)

\* int(x): Python truncates toward zero; num/den is the float being truncated.
PyInt(num, den) == IF num >= 0 THEN num \div den ELSE 0 - ((0 - num) \div den)

\* One bound of a Python slice a[i:...] or a[...:i] on a sequence of n items:
\* a negative index counts from the end, and both ends saturate.
PySliceIndex(i, n) == IF i < 0 THEN Max(i + n, 0) ELSE Min(i, n)

\* audio[start:end]: the half-open sample range [lo, lo + n) that is taken.
\* An empty slice is the same array wherever it starts: lo is 0 for it.
PySlice(n, start, end) ==
    LET lo == PySliceIndex(start, n)
        hi == PySliceIndex(end, n)
    IN  IF hi > lo THEN [lo |-> lo, n |-> hi - lo] ELSE [lo |-> 0, n |-> 0]

\* start_sample = int(seg['start'] * sr), with seg['start'] in tenths.
SampleOf(tenths) == PyInt(tenths * SR, 10)

\* segment_audio = audio[start_sample:end_sample]
segment_audio(audio_len, seg) ==
    PySlice(audio_len, SampleOf(seg.start), SampleOf(seg.end))

\* len(segment_audio) < sr * 0.3
TooShort(slice) == slice.n * 10 < SR * MinSegmentTenths

\* seg['start'] raises KeyError when the key is missing.
HasKeys(seg) == seg.keys

\* The entry appended to segment_paths for segment i (1-based here): None for
\* a short slice, else the file segment_{i-1:04d}.wav holding the slice.
SegmentPath(audio_len, segments, i) ==
    LET slice == segment_audio(audio_len, segments[i])
    IN  IF TooShort(slice) THEN None ELSE <<i - 1, slice.lo, slice.n>>

\* The loop runs until a segment raises; every segment before it has appended.
FirstBadSegment(segments) ==
    LET bad == {i \in DOMAIN segments : ~HasKeys(segments[i])}
    IN  IF bad = {} THEN 0 ELSE CHOOSE i \in bad : \A j \in bad : i <= j

\* The short segments left out of segment_paths instead of marked None.
split_audio_dropping_short(audio_len, segments) ==
    LET bad == FirstBadSegment(segments)
        all == [i \in DOMAIN segments |-> SegmentPath(audio_len, segments, i)]
    IN  IF bad # 0
        THEN [raised |-> TRUE, segment_paths |-> <<>>]
        ELSE [raised |-> FALSE,
              segment_paths |-> SelectSeq(all, LAMBDA x : x # None)]

split_audio_by_segments(audio_len, segments) ==
    LET bad == FirstBadSegment(segments)
    IN  IF bad # 0
        THEN [raised |-> TRUE, segment_paths |-> <<>>]
        ELSE [raised |-> FALSE,
              segment_paths |->
                  [i \in DOMAIN segments |-> SegmentPath(audio_len, segments, i)]]

(***************************************************************************)
(* Clustering engine: what both modes share.                               *)
(***************************************************************************)

\* [i for i, e in enumerate(embeddings) if e is not None], 1-based here.
valid_indices(embeddings) ==
    LET F[i \in 0..Len(embeddings)] ==
            IF i = 0 THEN <<>>
            ELSE IF embeddings[i] # None THEN Append(F[i - 1], i) ELSE F[i - 1]
    IN  F[Len(embeddings)]

\* [label] * len(embeddings)
Repeat(label, n) == [i \in 1..n |-> label]

\* What fit_predict can return for n samples and n_clusters = k: every id of
\* 0..k-1 is used.
Labelings(n, k) ==
    {f \in [1..n -> 0..(k - 1)] : \A c \in 0..(k - 1) : \E i \in 1..n : f[i] = c}

\* len(set(labels)) for the labels fit_predict returns with n_clusters = n.
EffectiveClusters(n) == n

ScoreImprovesOrTies(score, best_score) == score >= best_score

\* if score > best_score:
ScoreImproves(score, best_score) == score > best_score

\* for n in range(first, max_clusters + 1): ... best_score, best_n updated.
\* sil[n] is silhouette_score(X_scaled, labels) for the candidate n.
RECURSIVE ScanCandidates(_, _, _, _)
ScanCandidates(n, max_clusters, best, sil) ==
    IF n > max_clusters THEN best
    ELSE LET taken == /\ EffectiveClusters(n) > 1
                      /\ ScoreImproves(sil[n], best.best_score)
             next == IF taken THEN [best_score |-> sil[n], best_n |-> n] ELSE best
         IN  ScanCandidates(n + 1, max_clusters, next, sil)

(***************************************************************************)
(* cluster_speakers (unsupervised mode).                                   *)
(***************************************************************************)

\* max_clusters = min(10, len(X) - 1)
StandardMaxClusters(n_valid) == Min(MaxClustersStandard, n_valid - 1)

\* The search of lines 380-395, from best_score = -1 and best_n = 2.
StandardSearch(n_valid, sil) ==
    ScanCandidates(2, StandardMaxClusters(n_valid),
                   [best_score |-> InitialBestScore, best_n |-> 2], sil)

\* if max_distance < two_speaker_threshold:
BelowThreshold(max_distance) == max_distance < two_speaker_threshold

\* n_clusters as line 397 prints it; 0 stands for the early returns before it.
StandardClusters(n_valid, max_distance, sil) ==
    IF n_valid < 2 THEN 0
    ELSE IF BelowThreshold(max_distance) THEN 1
    ELSE StandardSearch(n_valid, sil).best_n

\* np.bincount(valid_labels): the count of each id 0..max(valid_labels).
bincount(labels) ==
    LET top == CHOOSE m \in {labels[i] : i \in DOMAIN labels} :
                   \A i \in DOMAIN labels : labels[i] <= m
    IN  [c \in 0..top |-> Cardinality({i \in DOMAIN labels : labels[i] = c})]

ArgmaxLast(counts) ==
    CHOOSE c \in DOMAIN counts :
        /\ \A d \in DOMAIN counts : counts[d] <= counts[c]
        /\ \A d \in DOMAIN counts : d > c => counts[d] < counts[c]

\* ndarray.argmax(): the first index that holds the maximum.
argmax(counts) ==
    CHOOSE c \in DOMAIN counts :
        /\ \A d \in DOMAIN counts : counts[d] <= counts[c]
        /\ \A d \in DOMAIN counts : d < c => counts[d] < counts[c]

SpeakerLabel(id) == "speaker_" \o ToString(id)

\* Lines 406-418: valid entries take their cluster's label in order, None
\* entries the most common one.
MapLabelsBack(embeddings, valid_labels) ==
    LET most_common_label == argmax(bincount(valid_labels))
        \* valid_label_idx when the loop reaches entry i
        Before(i) == Cardinality({j \in 1..(i - 1) : embeddings[j] # None})
    IN  [i \in DOMAIN embeddings |->
            IF embeddings[i] # None
            THEN SpeakerLabel(valid_labels[Before(i) + 1])
            ELSE SpeakerLabel(most_common_label)]

SingleSpeakerValidOnly(embeddings) ==
    Repeat("speaker_0", Len(valid_indices(embeddings)))

\* return ["speaker_0"] * len(embeddings)
SingleSpeaker(embeddings) == Repeat("speaker_0", Len(embeddings))

\* valid_labels is the final fit_predict, read only when n_clusters > 1.
cluster_speakers(embeddings, max_distance, sil, valid_labels) ==
    LET n_valid == Len(valid_indices(embeddings))
        n_clusters == StandardClusters(n_valid, max_distance, sil)
    IN  IF embeddings = <<>> THEN <<>>
        ELSE IF n_valid = 0 THEN SingleSpeaker(embeddings)
        ELSE IF n_valid < 2 THEN SingleSpeaker(embeddings)
        ELSE IF n_clusters = 1 THEN SingleSpeaker(embeddings)
        ELSE MapLabelsBack(embeddings, valid_labels)

(***************************************************************************)
(* cluster_speakers_personalized.                                          *)
(***************************************************************************)

\* scipy's cosine(emb, user_embedding) needs two 1-D vectors of one length;
\* a segment embedding is 1-D with EmbeddingDim components.
CosineDefined(user_embedding) ==
    user_embedding.ndim = 1 /\ user_embedding.len = EmbeddingDim

\* cosine(emb, user_embedding) <= threshold: the distance held under the
\* threshold, in place of the similarity held over it.
DistanceAtMost(emb, threshold) ==
    LET par == emb[1]
        n2 == emb[1] * emb[1] + emb[2] * emb[2]
        t == 100 - threshold
    IN  IF t <= 0
        THEN par >= 0 \/ par * par * 10000 <= t * t * n2
        ELSE par >= 0 /\ par * par * 10000 >= t * t * n2

\* similarity > threshold: the boundary left out.
SimilarityAbove(emb, threshold) ==
    LET par == emb[1]
        n2 == emb[1] * emb[1] + emb[2] * emb[2]
    IN  IF threshold < 0
        THEN par >= 0 \/ par * par * 10000 < threshold * threshold * n2
        ELSE par >= 0 /\ par * par * 10000 > threshold * threshold * n2

\* similarity = 1 - cosine(emb, user_embedding); similarity >= threshold.
\* similarity is par / sqrt(par^2 + perp^2); compared exactly, by squares.
SimilarityAtLeast(emb, threshold) ==
    LET par == emb[1]
        n2 == emb[1] * emb[1] + emb[2] * emb[2]
    IN  IF threshold <= 0
        THEN par >= 0 \/ par * par * 10000 <= threshold * threshold * n2
        ELSE par >= 0 /\ par * par * 10000 >= threshold * threshold * n2

\* other_indices after the loop of lines 244-264, 1-based here.
other_indices(embeddings, threshold) ==
    LET F[i \in 0..Len(embeddings)] ==
            IF i = 0 THEN <<>>
            ELSE IF /\ embeddings[i] # None
                    /\ ~SimilarityAtLeast(embeddings[i], threshold)
                 THEN Append(F[i - 1], i)
                 ELSE F[i - 1]
    IN  F[Len(embeddings)]

\* max_clusters = min(5, len(X) - 1)
OtherMaxClusters(n_other) == Min(MaxClustersOther, n_other - 1)

\* The search of lines 284-297, from best_score = -1 and best_n = 1.
OtherSearch(n_other, sil) ==
    ScanCandidates(2, OtherMaxClusters(n_other),
                   [best_score |-> InitialBestScore, best_n |-> 1], sil)

\* best_score >= 0.2: the gate taken at its boundary.
AcceptedAtOrAbove(best_score) == best_score >= AcceptScore

\* best_score > 0.2
Accepted(best_score) == best_score > AcceptScore

\* n_clusters of lines 280-299, for two or more pending-other embeddings.
OtherClusters(n_other, max_distance, sil) ==
    IF BelowThreshold(max_distance) \/ n_other < 2 THEN 1
    ELSE LET best == OtherSearch(n_other, sil)
         IN  IF Accepted(best.best_score) THEN best.best_n ELSE 1

OtherLabel(id) == "OTHER_" \o ToString(id)

\* other_labels of lines 304-309.
other_labels(n_other, n_clusters, cluster_ids) ==
    IF n_clusters = 1 THEN Repeat("OTHER", n_other)
    ELSE [j \in 1..n_other |-> OtherLabel(cluster_ids[j])]

\* Position of index i in the index list idx (i occurs in it).
PositionIn(idx, i) == CHOOSE j \in DOMAIN idx : idx[j] = i

\* all_labels.append(None): the placeholder of a pending-other index, as a
\* label value.
Placeholder == "None"

\* all_labels after the loop of lines 244-264.
all_labels(embeddings, others) ==
    [i \in DOMAIN embeddings |->
        IF \E j \in DOMAIN others : others[j] = i THEN Placeholder ELSE "YOU"]

\* all_labels[other_idx] = labels[idx] for each other_idx of other_indices.
FillOther(labels_in, others, labels) ==
    [i \in DOMAIN labels_in |->
        IF \E j \in DOMAIN others : others[j] = i
        THEN labels[PositionIn(others, i)]
        ELSE labels_in[i]]

\* The labels returned, or raised when cosine() rejects the reference.  cosine
\* is first called at the first valid embedding, after the early returns.
cluster_speakers_personalized(embeddings, user_embedding, threshold,
                              max_distance, sil, cluster_ids) ==
    LET n_valid == Len(valid_indices(embeddings))
        others == other_indices(embeddings, threshold)
        n_other == Len(others)
        pending == all_labels(embeddings, others)
    IN  IF embeddings = <<>> THEN [raised |-> FALSE, labels |-> <<>>]
        ELSE IF n_valid = 0
        THEN [raised |-> FALSE, labels |-> Repeat("YOU", Len(embeddings))]
        ELSE IF ~CosineDefined(user_embedding)
        THEN [raised |-> TRUE, labels |-> <<>>]
        ELSE IF n_other > 1
        THEN [raised |-> FALSE,
              labels |->
                  FillOther(pending, others,
                            other_labels(n_other,
                                         OtherClusters(n_other, max_distance, sil),
                                         cluster_ids))]
        ELSE IF n_other = 1
        THEN [raised |-> FALSE,
              labels |-> FillOther(pending, others, <<"OTHER">>)]
        ELSE [raised |-> FALSE, labels |-> pending]

(***************************************************************************)
(* Inputs and library results the specifications draw from.                *)
(***************************************************************************)

\* Segment embeddings: similarity 0.6 and 0.447 to the reference.
Vecs == {<<3, 4>>, <<1, 2>>}

EmbeddingLists == UNION {[1..n -> Vecs \cup {None}] : n \in 0..MaxEmb}

GoodReference == [ndim |-> 1, len |-> EmbeddingDim]

\* References handed to cluster_speakers_personalized directly.
References == {GoodReference, [ndim |-> 1, len |-> EmbeddingDim - 1]}

Thresholds == {DefaultThreshold, 60, 70}

\* np.max(pdist(X_scaled)): below the threshold, and at it.
Distances == {two_speaker_threshold - 1, two_speaker_threshold}

\* silhouette_score results: at the acceptance gate, and above it.
Scores == {AcceptScore, AcceptScore + 1}

\* np.max(pdist(X_scaled)), computed once two or more rows are stacked.
DistanceResults(measured) == IF measured THEN Distances ELSE {0}

\* One silhouette score per candidate of a search that runs.
ScoreResults(searched, max_clusters) ==
    [2..(IF searched THEN max_clusters ELSE 1) -> Scores]

\* The final fit_predict of n samples, run when n_clusters > 1.
LabelResults(n, n_clusters) ==
    IF n_clusters > 1 THEN Labelings(n, n_clusters) ELSE {<<>>}

IsOtherFamily(label) ==
    label = "OTHER" \/ label \in {OtherLabel(c) : c \in 0..(MaxClustersOther - 1)}

\* Tenth-of-a-second timestamps around a buffer of at most MaxAudioTenths.
Times == (0 - Jitter)..(MaxAudioTenths + Jitter)

SegmentInputs ==
    {[start |-> s, end |-> e, keys |-> TRUE] : s \in Times, e \in Times}
        \cup {[start |-> 0, end |-> 0, keys |-> FALSE]}

SegmentLists == UNION {[1..n -> SegmentInputs] : n \in 0..MaxSplitSegs}

(***************************************************************************)
(* SpecSplit: one call of split_audio_by_segments on drawn inputs.         *)
(***************************************************************************)

SplitterIdle ==
    [phase |-> "idle", audio_len |-> 0, segments |-> <<>>,
     raised |-> FALSE, segment_paths |-> <<>>]

EngineIdle ==
    [phase |-> "idle", embeddings |-> <<>>, user_embedding |-> GoodReference,
     threshold |-> 0, max_distance |-> 0, sil |-> [k \in {} |-> 0],
     best_score |-> InitialBestScore, best_n |-> 0,
     n_clusters |-> 0, cluster_ids |-> <<>>, raised |-> FALSE, labels |-> <<>>]

PrevNone == [threshold |-> 0, you |-> {}, others |-> 0]

ModelNone == [set |-> FALSE, checkpoint |-> FALSE, on_device |-> FALSE]

NoLoads == [setup |-> 0, checkpoint |-> 0]

\* SpecSplit and SpecCluster leave the service as it is before any request.
ServiceParked ==
    /\ model = ModelNone
    /\ loads = NoLoads
    /\ files = {}
    /\ req = <<>>

InitSplit ==
    /\ \E t \in 0..MaxAudioTenths, segs \in SegmentLists :
           splitter = [SplitterIdle EXCEPT !.phase = "input",
                                           !.audio_len = SampleOf(t),
                                           !.segments = segs]
    /\ engine = EngineIdle
    /\ prev = PrevNone
    /\ ServiceParked

CallSplit ==
    /\ splitter.phase = "input"
    /\ LET r == split_audio_by_segments(splitter.audio_len, splitter.segments)
       IN  splitter' = [splitter EXCEPT !.phase = "returned",
                                        !.raised = r.raised,
                                        !.segment_paths = r.segment_paths]
    /\ UNCHANGED <<engine, prev, service>>

NextSplit == CallSplit

SpecSplit == InitSplit /\ [][NextSplit]_vars

(***************************************************************************)
(* SpecCluster: calls of the clustering entry points on drawn inputs.      *)
(***************************************************************************)

\* The engine after a call: what the call read and computed, and its return.
\* best is the search's result, or the values it starts from when it did
\* not run.
Returned(phase, d, sil, best, k, ids, raised, labels) ==
    [engine EXCEPT !.phase = phase, !.max_distance = d, !.sil = sil,
                   !.best_score = best.best_score, !.best_n = best.best_n,
                   !.n_clusters = k, !.cluster_ids = ids, !.raised = raised,
                   !.labels = labels]

NotSearched == [best_score |-> InitialBestScore, best_n |-> 0]

InitCluster ==
    /\ \E embs \in EmbeddingLists :
           engine = [EngineIdle EXCEPT !.phase = "input", !.embeddings = embs]
    /\ splitter = SplitterIdle
    /\ prev = PrevNone
    /\ ServiceParked

\* cluster_speakers(embeddings, segments), with the library results it reads:
\* pdist's maximum once two embeddings are valid, a silhouette score per
\* candidate once the search runs, the final fit_predict once n_clusters > 1.
CallStandard ==
    /\ engine.phase = "input"
    /\ LET embeddings == engine.embeddings
           n_valid == Len(valid_indices(embeddings))
           measured == n_valid >= 2
       IN  \E d \in DistanceResults(measured) :
           \E sil \in ScoreResults(measured /\ ~BelowThreshold(d),
                                   StandardMaxClusters(n_valid)) :
           LET k == StandardClusters(n_valid, d, sil)
               best == IF measured /\ ~BelowThreshold(d)
                       THEN StandardSearch(n_valid, sil) ELSE NotSearched
           IN  \E ids \in LabelResults(n_valid, k) :
                   engine' = Returned("standard", d, sil, best, k, ids, FALSE,
                                 cluster_speakers(embeddings, d, sil, ids))
    /\ UNCHANGED <<splitter, prev, service>>

\* cluster_speakers_personalized(embeddings, u, t), with the library results
\* it reads once two or more embeddings are pending-other.
PersonalizedCall(phase, embeddings, u, t) ==
    LET n_valid == Len(valid_indices(embeddings))
        n_other == Len(other_indices(embeddings, t))
        measured == n_valid > 0 /\ CosineDefined(u) /\ n_other > 1
    IN  \E d \in DistanceResults(measured) :
        \E sil \in ScoreResults(measured /\ ~BelowThreshold(d),
                                OtherMaxClusters(n_other)) :
        LET k == IF measured THEN OtherClusters(n_other, d, sil) ELSE 0
            best == IF measured /\ ~BelowThreshold(d)
                    THEN OtherSearch(n_other, sil) ELSE NotSearched
        IN  \E ids \in LabelResults(n_other, k) :
            LET r == cluster_speakers_personalized(embeddings, u, t, d, sil, ids)
            IN  engine' = [Returned(phase, d, sil, best, k, ids, r.raised, r.labels)
                               EXCEPT !.user_embedding = u, !.threshold = t]

CallPersonalized ==
    /\ engine.phase = "input"
    /\ \E u \in References, t \in Thresholds :
           PersonalizedCall("personalized", engine.embeddings, u, t)
    /\ UNCHANGED <<splitter, prev, service>>

\* Between two calls on the same embeddings and reference: the YOU indices
\* and the OTHER-family count of the labels just returned are kept.
Rearm ==
    /\ engine.phase = "personalized"
    /\ ~engine.raised
    /\ prev' = [threshold |-> engine.threshold,
                you |-> {i \in DOMAIN engine.labels : engine.labels[i] = "YOU"},
                others |-> Cardinality({i \in DOMAIN engine.labels :
                                            IsOtherFamily(engine.labels[i])})]
    /\ engine' = [EngineIdle EXCEPT !.phase = "rearmed",
                                    !.embeddings = engine.embeddings,
                                    !.user_embedding = engine.user_embedding]
    /\ UNCHANGED <<splitter, service>>

CallPersonalizedAgain ==
    /\ engine.phase = "rearmed"
    /\ \E t \in Thresholds :
           PersonalizedCall("personalized_again", engine.embeddings,
                            engine.user_embedding, t)
    /\ UNCHANGED <<splitter, prev, service>>

NextCluster == CallStandard \/ CallPersonalized \/ Rearm \/ CallPersonalizedAgain

SpecCluster == InitCluster /\ [][NextCluster]_vars

(***************************************************************************)
(* Spec: the service.  Each worker serves one /diarize or /enroll request.  *)
(* The handlers are coroutines of one event loop: a handler runs alone     *)
(* from one await to the next, and each awaits only audio.read().          *)
(***************************************************************************)

Workers == 1..NumWorkers

\* Segments of a request on an upload of UploadTenths: 0.2 s (too short to
\* split off), 0.7 s, and one that lacks a key.
ServiceSegments ==
    {[start |-> 0, end |-> 2, keys |-> TRUE],
     [start |-> 2, end |-> 9, keys |-> TRUE],
     [start |-> 0, end |-> 0, keys |-> FALSE]}

ServiceSegmentLists == UNION {[1..n -> ServiceSegments] : n \in 0..MaxSegs}

\* user_emb: None (no form field, or one that did not parse); the enrolled
\* 512 vector; a vector of 511; a 512 x k matrix; a bare number.
NoReference == [ndim |-> -1, len |-> 0]

ServiceReferences ==
    {NoReference, GoodReference, [ndim |-> 1, len |-> EmbeddingDim - 1],
     [ndim |-> 2, len |-> EmbeddingDim], [ndim |-> 0, len |-> 0]}

\* The handler's locals before line 434 and after it returns.
ReqIdle ==
    [pc |-> "idle", temp_audio |-> FALSE, wav_path |-> FALSE,
     temp_dir |-> FALSE, segment_list |-> <<>>, segment_paths |-> <<>>,
     embeddings |-> <<>>, user_emb |-> NoReference, speaker_labels |-> <<>>,
     response_segments |-> 0, status |-> 0,
     handler |-> "diarize", embedding |-> "unbound"]

Suspended(pc) == pc \in {"idle", "reading", "enroll_reading", "done"}

MayResumeThreaded(w) == TRUE

\* The event loop resumes a handler only when no other handler is running.
MayResume(w) == \A v \in Workers \ {w} : Suspended(req[v].pc)

\* Every list cluster_speakers can return for these embeddings.
StandardReturns(embeddings) ==
    LET n_valid == Len(valid_indices(embeddings))
        measured == n_valid >= 2
    IN  UNION {UNION {
            {cluster_speakers(embeddings, d, sil, ids) :
                ids \in LabelResults(n_valid, StandardClusters(n_valid, d, sil))} :
            sil \in ScoreResults(measured /\ ~BelowThreshold(d),
                                 StandardMaxClusters(n_valid))} :
            d \in DistanceResults(measured)}

\* Every outcome of cluster_speakers_personalized for these arguments.
PersonalizedReturns(embeddings, u, t) ==
    LET n_valid == Len(valid_indices(embeddings))
        n_other == Len(other_indices(embeddings, t))
        measured == n_valid > 0 /\ CosineDefined(u) /\ n_other > 1
    IN  UNION {UNION {
            {cluster_speakers_personalized(embeddings, u, t, d, sil, ids) :
                ids \in LabelResults(n_other,
                           IF measured THEN OtherClusters(n_other, d, sil) ELSE 0)} :
            sil \in ScoreResults(measured /\ ~BelowThreshold(d),
                                 OtherMaxClusters(n_other))} :
            d \in DistanceResults(measured)}

Init ==
    /\ model = ModelNone
    /\ loads = NoLoads
    /\ files = {}
    /\ req = [w \in Workers |-> ReqIdle]
    /\ splitter = SplitterIdle
    /\ engine = EngineIdle
    /\ prev = PrevNone

\* Lines 434-447: the upload's temporary file is created, then the handler
\* awaits audio.read().
Start(w) ==
    /\ req[w].pc = "idle"
    /\ MayResume(w)
    /\ files' = files \cup {<<w, "upload">>}
    /\ req' = [req EXCEPT ![w].pc = "reading", ![w].temp_audio = TRUE]
    /\ UNCHANGED <<model, loads, harness>>

\* Lines 447-448: the read completes; the bytes are written and the file closed.
Resume(w) ==
    /\ req[w].pc = "reading"
    /\ MayResume(w)
    /\ req' = [req EXCEPT ![w].pc = "convert"]
    /\ UNCHANGED <<model, loads, files, harness>>

\* wav_path = convert_to_wav(temp_audio.name): the WAV is written and its
\* path returned; or from_file raises before anything is written; or export
\* raises with the output file already created.
Convert(w) ==
    /\ req[w].pc = "convert"
    /\ \/ /\ files' = files \cup {<<w, "wav">>}
          /\ req' = [req EXCEPT ![w].pc = "segments", ![w].wav_path = TRUE]
       \/ /\ files' = files
          /\ req' = [req EXCEPT ![w].pc = "except"]
       \/ /\ files' = files \cup {<<w, "wav">>}
          /\ req' = [req EXCEPT ![w].pc = "except"]
    /\ UNCHANGED <<model, loads, harness>>

\* Lines 456-465: segment_list from the form field, or the whole audio as
\* one segment when there is none; json.loads or get_duration may raise.
ParseSegments(w) ==
    /\ req[w].pc = "segments"
    /\ \/ \E segs \in ServiceSegmentLists :
              req' = [req EXCEPT ![w].pc = "split", ![w].segment_list = segs]
       \/ req' = [req EXCEPT ![w].pc = "split",
                             ![w].segment_list =
                                 <<[start |-> 0, end |-> UploadTenths,
                                    keys |-> TRUE]>>]
       \/ req' = [req EXCEPT ![w].pc = "except"]
    /\ UNCHANGED <<model, loads, files, harness>>

\* segment_paths, temp_dir = split_audio_by_segments(audio_file, segment_list):
\* mkdtemp comes first; temp_dir is assigned only when the call returns.
SplitAudio(w) ==
    /\ req[w].pc = "split"
    /\ files' = files \cup {<<w, "dir">>}
    /\ LET r == split_audio_by_segments(SampleOf(UploadTenths),
                                        req[w].segment_list)
       IN  IF r.raised
           THEN req' = [req EXCEPT ![w].pc = "except"]
           ELSE req' = [req EXCEPT ![w].pc = "embed", ![w].temp_dir = TRUE,
                                   ![w].segment_paths = r.segment_paths]
    /\ UNCHANGED <<model, loads, harness>>

\* The head of the loop of lines 476-488 for the next seg_path.
EmbedNext(w) ==
    /\ req[w].pc = "embed"
    /\ LET i == Len(req[w].embeddings) + 1
       IN  IF i > Len(req[w].segment_paths)
           THEN req' = [req EXCEPT ![w].pc = "cluster"]
           ELSE IF req[w].segment_paths[i] = None
           THEN req' = [req EXCEPT ![w].embeddings = Append(@, None)]
           ELSE req' = [req EXCEPT ![w].pc = "lm_check"]
    /\ UNCHANGED <<model, loads, files, harness>>

\* get_speaker_embedding returned None: its except clause caught a raise.
\* /diarize appends it to embeddings, /enroll binds it to embedding.
EmbeddingFailed(w) ==
    IF req[w].handler = "enroll"
    THEN [req EXCEPT ![w].pc = "enroll_check", ![w].embedding = "None"]
    ELSE [req EXCEPT ![w].pc = "embed", ![w].embeddings = Append(@, None)]

\* load_model, lines 83-84: the cached model is returned when there is one.
LoadModelCheck(w) ==
    /\ req[w].pc = "lm_check"
    /\ req' = [req EXCEPT ![w].pc = IF model.set THEN "extract" ELSE "lm_setup"]
    /\ UNCHANGED <<model, loads, files, harness>>

\* load_model, lines 89-112: model = setup_tts_model(config), unless the
\* download, load_config or the setup raises.
LoadModelSetup(w) ==
    /\ req[w].pc = "lm_setup"
    /\ \/ /\ model' = [model EXCEPT !.set = TRUE]
          /\ loads' = [loads EXCEPT !.setup = @ + 1]
          /\ req' = [req EXCEPT ![w].pc = "lm_checkpoint"]
       \/ /\ req' = EmbeddingFailed(w)
          /\ UNCHANGED <<model, loads>>
    /\ UNCHANGED <<files, harness>>

\* load_model, lines 121-129: model.load_checkpoint(...), which may raise.
LoadModelCheckpoint(w) ==
    /\ req[w].pc = "lm_checkpoint"
    /\ \/ /\ model' = [model EXCEPT !.checkpoint = TRUE]
          /\ loads' = [loads EXCEPT !.checkpoint = @ + 1]
          /\ req' = [req EXCEPT ![w].pc = "lm_device"]
       \/ /\ req' = EmbeddingFailed(w)
          /\ UNCHANGED <<model, loads>>
    /\ UNCHANGED <<files, harness>>

\* load_model, lines 131-134: model.to(device), which may raise.
LoadModelToDevice(w) ==
    /\ req[w].pc = "lm_device"
    /\ \/ /\ model' = [model EXCEPT !.on_device = TRUE]
          /\ req' = [req EXCEPT ![w].pc = "extract"]
       \/ /\ req' = EmbeddingFailed(w)
          /\ UNCHANGED model
    /\ UNCHANGED <<loads, files, harness>>

\* duration < 0.5 for the segment file of this path.
TooShortToEmbed(path) == path[3] * 10 < SR * MinEmbeddingTenths

\* get_speaker_embedding, lines 142-171: None for a short file or a raise,
\* else the embedding the model returns.
Extract(w) ==
    /\ req[w].pc = "extract"
    /\ req[w].handler = "diarize"
    /\ LET path == req[w].segment_paths[Len(req[w].embeddings) + 1]
       IN  \E e \in (IF TooShortToEmbed(path) THEN {None} ELSE Vecs \cup {None}) :
               req' = [req EXCEPT ![w].pc = "embed",
                                  ![w].embeddings = Append(@, e)]
    /\ UNCHANGED <<model, loads, files, harness>>

\* if user_emb is not None and len(user_emb) == 512:
UsePersonalized(user_emb) ==
    user_emb # NoReference /\ user_emb.len = EmbeddingDim

\* Lines 491-507: user_emb is parsed, then the labels come from the
\* personalized or the standard clustering.  len() of a 0-d array raises.
Cluster(w) ==
    /\ req[w].pc = "cluster"
    /\ \E u \in ServiceReferences :
           IF u.ndim = 0
           THEN req' = [req EXCEPT ![w].pc = "except", ![w].user_emb = u]
           ELSE IF UsePersonalized(u)
           THEN \E r \in PersonalizedReturns(req[w].embeddings, u,
                                             DefaultThreshold) :
                    IF r.raised
                    THEN req' = [req EXCEPT ![w].pc = "except",
                                            ![w].user_emb = u]
                    ELSE req' = [req EXCEPT ![w].pc = "respond",
                                            ![w].user_emb = u,
                                            ![w].speaker_labels = r.labels]
           ELSE \E labels \in StandardReturns(req[w].embeddings) :
                    req' = [req EXCEPT ![w].pc = "respond", ![w].user_emb = u,
                                       ![w].speaker_labels = labels]
    /\ UNCHANGED <<model, loads, files, harness>>

\* Lines 510-528: one response segment per pair of zip(segment_list,
\* speaker_labels); the response is returned.
Respond(w) ==
    /\ req[w].pc = "respond"
    /\ req' = [req EXCEPT ![w].pc = "finally", ![w].status = 200,
                          ![w].response_segments =
                              Min(Len(req[w].segment_list),
                                  Len(req[w].speaker_labels))]
    /\ UNCHANGED <<model, loads, files, harness>>

\* Lines 530-534: any exception becomes HTTPException(status_code=500).
Except(w) ==
    /\ req[w].pc = "except"
    /\ req' = [req EXCEPT ![w].pc = "finally", ![w].status = 500]
    /\ UNCHANGED <<model, loads, files, harness>>

\* What the finally clause of lines 536-543 removes: the paths its locals hold.
Removed(w) ==
    {<<w, "upload">> : x \in {y \in {1} : req[w].temp_audio}}
        \cup {<<w, "wav">> : x \in {y \in {1} : req[w].wav_path}}
        \cup {<<w, "dir">> : x \in {y \in {1} : req[w].temp_dir}}

Finally(w) ==
    /\ req[w].pc = "finally"
    /\ files' = files \ Removed(w)
    /\ req' = [req EXCEPT ![w] = [ReqIdle EXCEPT !.pc = "done",
                                                 !.status = req[w].status]]
    /\ UNCHANGED <<model, loads, harness>>

\* /enroll, lines 558-568: the locals, the upload's temporary file, then
\* the handler awaits audio.read().
EnrollStart(w) ==
    /\ req[w].pc = "idle"
    /\ MayResume(w)
    /\ files' = files \cup {<<w, "upload">>}
    /\ req' = [req EXCEPT ![w].pc = "enroll_reading", ![w].temp_audio = TRUE,
                          ![w].handler = "enroll"]
    /\ UNCHANGED <<model, loads, harness>>

\* /enroll, lines 568-569: the read completes.
EnrollResume(w) ==
    /\ req[w].pc = "enroll_reading"
    /\ MayResume(w)
    /\ req' = [req EXCEPT ![w].pc = "enroll_convert"]
    /\ UNCHANGED <<model, loads, files, harness>>

\* /enroll, lines 572-576: wav_path = convert_to_wav(temp_audio.name), with
\* the outcomes of Convert; then get_speaker_embedding enters load_model.
EnrollConvert(w) ==
    /\ req[w].pc = "enroll_convert"
    /\ \/ /\ files' = files \cup {<<w, "wav">>}
          /\ req' = [req EXCEPT ![w].pc = "lm_check", ![w].wav_path = TRUE]
       \/ /\ files' = files
          /\ req' = [req EXCEPT ![w].pc = "enroll_except"]
       \/ /\ files' = files \cup {<<w, "wav">>}
          /\ req' = [req EXCEPT ![w].pc = "enroll_except"]
    /\ UNCHANGED <<model, loads, harness>>

\* Durations of the audio uploaded to /enroll, in tenths of a second.
EnrollTenths == {MinEmbeddingTenths - 1, UploadTenths}

\* /enroll, line 576: get_speaker_embedding on the whole file, past
\* load_model: None for a short file or a raise, else the embedding.
EnrollExtract(w) ==
    /\ req[w].pc = "extract"
    /\ req[w].handler = "enroll"
    /\ \E t \in EnrollTenths :
       \E e \in (IF TooShortToEmbed(<<0, 0, SampleOf(t)>>)
                 THEN {"None"} ELSE {"None", "array"}) :
           req' = [req EXCEPT ![w].pc = "enroll_check", ![w].embedding = e]
    /\ UNCHANGED <<model, loads, files, harness>>

\* /enroll, lines 578-585: HTTPException(status_code=400) is raised inside
\* the try block when embedding is None; else the embedding is returned.
EnrollCheck(w) ==
    /\ req[w].pc = "enroll_check"
    /\ IF req[w].embedding = "None"
       THEN req' = [req EXCEPT ![w].pc = "enroll_except", ![w].status = 400]
       ELSE req' = [req EXCEPT ![w].pc = "enroll_finally", ![w].status = 200]
    /\ UNCHANGED <<model, loads, files, harness>>

\* /enroll, lines 586-590: except Exception catches whatever the try block
\* raised, the HTTPException of line 578 included (HTTPException derives
\* from Exception), and raises HTTPException(status_code=500) in its place.
EnrollExcept(w) ==
    /\ req[w].pc = "enroll_except"
    /\ req' = [req EXCEPT ![w].pc = "enroll_finally", ![w].status = 500]
    /\ UNCHANGED <<model, loads, files, harness>>

\* What the finally clause of lines 592-597 removes.
EnrollRemoved(w) ==
    {<<w, "upload">> : x \in {y \in {1} : req[w].temp_audio}}
        \cup {<<w, "wav">> : x \in {y \in {1} : req[w].wav_path}}

EnrollFinally(w) ==
    /\ req[w].pc = "enroll_finally"
    /\ files' = files \ EnrollRemoved(w)
    /\ req' = [req EXCEPT ![w] = [ReqIdle EXCEPT !.pc = "done",
                                                 !.status = req[w].status,
                                                 !.handler = "enroll",
                                                 !.embedding = req[w].embedding]]
    /\ UNCHANGED <<model, loads, harness>>

\* Lines 599-602: what /health returns in the current state.
health_check == [status |-> "healthy", model_loaded |-> model.set]

\* The event loop runs the /health handler when no other handler is running.
HealthMayRun == \A w \in Workers : Suspended(req[w].pc)

Next ==
    \E w \in Workers :
        \/ Start(w)
        \/ Resume(w)
        \/ Convert(w)
        \/ ParseSegments(w)
        \/ SplitAudio(w)
        \/ EmbedNext(w)
        \/ LoadModelCheck(w)
        \/ LoadModelSetup(w)
        \/ LoadModelCheckpoint(w)
        \/ LoadModelToDevice(w)
        \/ Extract(w)
        \/ Cluster(w)
        \/ Respond(w)
        \/ Except(w)
        \/ Finally(w)
        \/ EnrollStart(w)
        \/ EnrollResume(w)
        \/ EnrollConvert(w)
        \/ EnrollExtract(w)
        \/ EnrollCheck(w)
        \/ EnrollExcept(w)
        \/ EnrollFinally(w)

Spec == Init /\ [][Next]_vars

(***************************************************************************)
(* Properties of the service (Spec).                                       *)
(***************************************************************************)

AfterSplit == {"embed", "lm_check", "lm_setup", "lm_checkpoint", "lm_device",
               "extract", "cluster", "respond"}

\* C1: index alignment through the pipeline.  Once the splitter has
\* returned, segment_paths has one entry per segment, entry i being None or
\* the file of segment i; the embeddings built so far are a prefix aligned
\* with it (None wherever the path is None) and are complete, one per
\* segment, when clustering starts; the labels returned are one per segment,
\* and so are the response's segments.
C1_IndexAlignment ==
    \A w \in Workers :
        LET r == req[w]
            n == Len(r.segment_list)
        IN  /\ r.pc \in AfterSplit =>
                /\ Len(r.segment_paths) = n
                /\ \A i \in 1..Len(r.segment_paths) :
                       r.segment_paths[i] = None \/ r.segment_paths[i][1] = i - 1
                /\ Len(r.embeddings) <= n
                /\ \A i \in 1..Len(r.embeddings) :
                       i <= Len(r.segment_paths) /\ r.segment_paths[i] = None
                           => r.embeddings[i] = None
            /\ r.pc \in {"cluster", "respond"} => Len(r.embeddings) = n
            /\ r.pc = "respond" => Len(r.speaker_labels) = n
            /\ r.pc = "finally" /\ r.status = 200 => r.response_segments = n

\* A request with two or more segments, one too short to split off and one
\* whose extraction returned None, has its labels.
C1_Witness ==
    \E w \in Workers :
        /\ req[w].pc = "respond"
        /\ Len(req[w].segment_list) >= 2
        /\ Len(req[w].speaker_labels) = Len(req[w].segment_list)
        /\ \E i \in DOMAIN req[w].segment_paths : req[w].segment_paths[i] = None
        /\ \E i \in DOMAIN req[w].segment_paths :
               req[w].segment_paths[i] # None /\ req[w].embeddings[i] = None

\* C2: the model is set up at most once and its checkpoint loaded at most
\* once in the process, whatever the interleaving of the requests; a model
\* in the cache with its checkpoint loaded was set up and loaded exactly once.
C2_SingleLoad ==
    /\ loads.setup <= 1
    /\ loads.checkpoint <= 1
    /\ model.set => loads.setup = 1
    /\ model.checkpoint => loads.checkpoint = 1

\* One request is inside load_model, the model set up and its checkpoint
\* not yet loaded, while another request is in flight.
C2_Witness ==
    \E w \in Workers, v \in Workers :
        /\ w # v
        /\ req[w].pc = "lm_checkpoint"
        /\ req[v].pc = "reading"
        /\ loads.setup = 1

\* C3: when a /diarize request has finished, none of its temporary resources
\* (the upload, the converted WAV, the splitter's directory) exists any more.
C3_TempResourcesRemoved ==
    \A w \in Workers :
        req[w].pc = "done" /\ req[w].handler = "diarize"
            => ~(\E f \in files : f[1] = w)

\* C4: a request whose reference embedding is a vector of another length
\* than 512 is answered with an error, never with labels.
C4_WrongDimensionRejected ==
    \A w \in Workers :
        /\ req[w].pc = "finally"
        /\ req[w].user_emb.ndim = 1
        /\ req[w].user_emb.len # EmbeddingDim
        => req[w].status = 500

(***************************************************************************)
(* Properties of the clustering engine (SpecCluster).                      *)
(***************************************************************************)

\* How many valid entries of the returned labels carry speaker_<c>.
ValidCount(c) ==
    Cardinality({j \in DOMAIN engine.embeddings :
                    /\ engine.embeddings[j] # None
                    /\ engine.labels[j] = SpeakerLabel(c)})

ClusterIds == 0..(MaxClustersStandard - 1)

\* C5: in what cluster_speakers returns, every entry whose embedding is None
\* carries the label of the cluster most frequent among the valid entries,
\* the lowest id among equally frequent ones.
C5_MajorityFallback ==
    engine.phase = "standard" =>
        \A i \in DOMAIN engine.embeddings :
            engine.embeddings[i] = None =>
                \E c \in ClusterIds :
                    /\ engine.labels[i] = SpeakerLabel(c)
                    /\ \A d \in ClusterIds :
                           /\ ValidCount(d) <= ValidCount(c)
                           /\ d < c => ValidCount(d) < ValidCount(c)

\* Two clusters tie among the valid entries and a None entry takes the
\* lower id.
C5_Witness ==
    /\ engine.phase = "standard"
    /\ engine.n_clusters >= 2
    /\ ValidCount(0) = ValidCount(1)
    /\ \A d \in ClusterIds : ValidCount(d) <= ValidCount(0)
    /\ \E i \in DOMAIN engine.embeddings :
           engine.embeddings[i] = None /\ engine.labels[i] = "speaker_0"

YouIndices == {i \in DOMAIN engine.labels : engine.labels[i] = "YOU"}

OtherFamilyCount ==
    Cardinality({i \in DOMAIN engine.labels : IsOtherFamily(engine.labels[i])})

\* C6: for the same embeddings and reference, a call at a threshold no lower
\* than the preceding call's returns at least as many OTHER-family labels,
\* and labels YOU only indices the preceding call labelled YOU.
C6_ThresholdMonotone ==
    engine.phase = "personalized_again" /\ prev.threshold <= engine.threshold
        => /\ OtherFamilyCount >= prev.others
           /\ YouIndices \subseteq prev.you

\* The second call, at a higher threshold, turns a YOU into an OTHER.
C6_Witness ==
    /\ engine.phase = "personalized_again"
    /\ prev.threshold < engine.threshold
    /\ OtherFamilyCount > prev.others
    /\ prev.others > 0
    /\ YouIndices # {}

EngineValid == Len(valid_indices(engine.embeddings))

\* C7: degenerate inputs resolve to one cluster without raising:
\* cluster_speakers returns speaker_0 for every index when at most one
\* embedding is valid, cluster_speakers_personalized returns YOU for every
\* index when none is valid (whatever the reference), and an empty input
\* gives an empty output.
C7_DegenerateInputs ==
    /\ engine.phase = "standard" /\ EngineValid <= 1
           => /\ ~engine.raised
              /\ engine.labels = [i \in DOMAIN engine.embeddings |-> "speaker_0"]
    /\ engine.phase \in {"personalized", "personalized_again"} /\ EngineValid = 0
           => /\ ~engine.raised
              /\ engine.labels = [i \in DOMAIN engine.embeddings |-> "YOU"]

\* cluster_speakers has returned for one valid embedding among None ones.
C7_Witness ==
    /\ engine.phase = "standard"
    /\ EngineValid = 1
    /\ Len(engine.embeddings) >= 3
    /\ engine.labels = [i \in DOMAIN engine.embeddings |-> "speaker_0"]

Searched == DOMAIN engine.sil # {}

BestOfScores ==
    CHOOSE s \in {engine.sil[k] : k \in DOMAIN engine.sil} :
        \A k \in DOMAIN engine.sil : engine.sil[k] <= s

\* C9: after the candidate scan of either mode, best_score is the highest
\* silhouette score of the candidates and best_n the smallest candidate that
\* attains it; cluster_speakers clusters with that best_n.
C9_SmallestBestCandidate ==
    engine.phase \in {"standard", "personalized", "personalized_again"} /\ Searched
        => /\ engine.best_score = BestOfScores
           /\ engine.best_n \in DOMAIN engine.sil
           /\ engine.sil[engine.best_n] = BestOfScores
           /\ \A k \in DOMAIN engine.sil :
                  engine.sil[k] = BestOfScores => engine.best_n <= k
           /\ engine.phase = "standard" => engine.n_clusters = engine.best_n

\* Two candidates tie at the highest score and the smaller one is selected.
C9_Witness ==
    /\ engine.phase = "standard"
    /\ Searched
    /\ {2, 3} \subseteq DOMAIN engine.sil
    /\ engine.sil[2] = engine.sil[3]
    /\ engine.sil[2] = BestOfScores
    /\ engine.n_clusters = 2

\* C10: when cluster_speakers does not take the single-speaker short-circuit,
\* its final clustering uses a searched candidate: 2 <= k <= min(10, |valid| - 1).
C10_FinalCountSearched ==
    /\ engine.phase = "standard"
    /\ EngineValid >= 2
    /\ engine.max_distance >= two_speaker_threshold
    => /\ 2 <= engine.n_clusters
       /\ engine.n_clusters <= StandardMaxClusters(EngineValid)

Personalized == engine.phase \in {"personalized", "personalized_again"}

\* The cosine similarity of emb to the reference is at least t hundredths
\* (t > 0): emb points along the reference and par^2 / |emb|^2 >= (t/100)^2.
AtOrAboveThreshold(emb, t) ==
    /\ emb[1] > 0
    /\ 10000 * emb[1] * emb[1] >= t * t * (emb[1] * emb[1] + emb[2] * emb[2])

\* Indices whose embedding is present and below the threshold.
PendingOther ==
    {i \in DOMAIN engine.embeddings :
        /\ engine.embeddings[i] # None
        /\ ~AtOrAboveThreshold(engine.embeddings[i], engine.threshold)}

\* C11: when cluster_speakers_personalized returns labels for a list with at
\* least one valid embedding, an index is labelled YOU if and only if its
\* embedding is None or its similarity to the reference is greater than or
\* equal to the threshold (equality counts as YOU); every other index has an
\* OTHER-family label.
C11_YouIffNoneOrSimilar ==
    Personalized /\ ~engine.raised /\ EngineValid >= 1
        => /\ DOMAIN engine.labels = DOMAIN engine.embeddings
           /\ \A i \in DOMAIN engine.embeddings :
                  /\ engine.labels[i] = "YOU" <=> i \notin PendingOther
                  /\ i \in PendingOther => IsOtherFamily(engine.labels[i])

\* One call returns YOU for a None entry, YOU for an embedding whose
\* similarity equals the threshold, and an OTHER-family label for a third.
C11_Witness ==
    /\ engine.phase = "personalized"
    /\ ~engine.raised
    /\ \E i, j, k \in DOMAIN engine.embeddings :
           /\ engine.embeddings[i] = None /\ engine.labels[i] = "YOU"
           /\ engine.embeddings[j] = <<3, 4>> /\ engine.threshold = 60
           /\ engine.labels[j] = "YOU"
           /\ engine.embeddings[k] = <<1, 2>>
           /\ IsOtherFamily(engine.labels[k])

\* Two or more pending-other indices, max_distance >= 19, and a candidate
\* k in [2, min(5, n - 1)] whose silhouette score exceeds 0.2.
SubClustered ==
    LET n == Cardinality(PendingOther)
    IN  /\ n >= 2
        /\ engine.max_distance >= two_speaker_threshold
        /\ \E k \in 2..Min(MaxClustersOther, n - 1) :
               k \in DOMAIN engine.sil /\ engine.sil[k] > AcceptScore

NumberedOther(label) == IsOtherFamily(label) /\ label # "OTHER"

\* C12: the pending-other indices are labelled OTHER_<cluster-id> only when
\* there are two or more of them, max_distance >= 19 and the best silhouette
\* score over k in [2, min(5, n - 1)] is strictly greater than 0.2; in every
\* other case each of them is labelled exactly OTHER.  No returned list holds
\* both OTHER and an OTHER_<id> label, and no entry is left as None.
C12_OtherLabelling ==
    Personalized /\ ~engine.raised
        => /\ \A i \in DOMAIN engine.labels :
                  /\ engine.labels[i] # Placeholder
                  /\ NumberedOther(engine.labels[i])
                         => i \in PendingOther /\ SubClustered
                  /\ i \in PendingOther /\ ~SubClustered
                         => engine.labels[i] = "OTHER"
           /\ ~ \E i, j \in DOMAIN engine.labels :
                    engine.labels[i] = "OTHER" /\ NumberedOther(engine.labels[j])

\* Three pending-other embeddings are split into OTHER_0 and OTHER_1 next to
\* a YOU, on a best score just over the gate.
C12_Witness ==
    /\ engine.phase = "personalized"
    /\ ~engine.raised
    /\ Cardinality(PendingOther) = 3
    /\ Searched
    /\ BestOfScores = AcceptScore + 1
    /\ \E i, j, k \in DOMAIN engine.labels :
           /\ engine.labels[i] = OtherLabel(0)
           /\ engine.labels[j] = OtherLabel(1)
           /\ engine.labels[k] = "YOU"

FullyLoaded == model.checkpoint /\ model.on_device

\* C13: the model cache is observed only empty or fully loaded: /health
\* reports model_loaded = true only for a model whose checkpoint was loaded
\* and which was moved to the device, and a load_model call that returns
\* the cached model to get_speaker_embedding returns such a model.
C13_CacheEmptyOrLoaded ==
    /\ HealthMayRun /\ health_check.model_loaded => FullyLoaded
    /\ \A w \in Workers : req[w].pc = "extract" => FullyLoaded

\* C14: an /enroll request whose embedding extraction returned None is
\* answered with the HTTP 400 raised for that case, not with a 500, and its
\* temporary upload and converted WAV are removed.
C14_EnrollNoneIs400 ==
    \A w \in Workers :
        /\ req[w].pc = "done"
        /\ req[w].handler = "enroll"
        /\ req[w].embedding = "None"
        => /\ req[w].status = 400
           /\ ~(\E f \in files : f[1] = w)

(***************************************************************************)
(* Properties of the splitter (SpecSplit).                                 *)
(***************************************************************************)

\* audio[max(0, start) : min(len(audio), end)] as a sample range.
ClampedSlice(n, start, end) ==
    LET lo == Max(0, start)
        hi == Min(n, end)
    IN  IF hi > lo THEN [lo |-> lo, n |-> hi - lo] ELSE [lo |-> 0, n |-> 0]

OutOfRange(seg, audio_len) ==
    \/ SampleOf(seg.start) < 0
    \/ SampleOf(seg.start) > audio_len
    \/ SampleOf(seg.end) > audio_len

\* C8: for a segment whose start lies below 0, or whose start or end lies
\* beyond the buffer, the slice the splitter takes is
\* audio[max(0, start*rate) : min(len(audio), end*rate)], and the call does
\* not fail.
C8_SliceClamped ==
    splitter.phase = "returned" =>
        \A i \in DOMAIN splitter.segments :
            LET seg == splitter.segments[i]
                want == ClampedSlice(splitter.audio_len, SampleOf(seg.start),
                                     SampleOf(seg.end))
            IN  HasKeys(seg) /\ OutOfRange(seg, splitter.audio_len) =>
                    /\ ~splitter.raised
                    /\ splitter.segment_paths[i] =
                           IF TooShort(want) THEN None
                           ELSE <<i - 1, want.lo, want.n>>

====
